---- MODULE Spec2Model ----
(***************************************************************************)
(* Model of the landscape2 build subcommand (src/build/mod.rs): the        *)
(* orchestrator `build`, the bounded logo fan-out `prepare_items_logos`,   *)
(* the concurrent collection of Crunchbase and GitHub data and the merges  *)
(* into the landscape items.  The modules cache, logos, data, github and   *)
(* crunchbase are not part of the visible source; they are modelled from   *)
(* the design document (fetch-or-compute cache, normalise-then-digest,     *)
(* per-reference collection, merge by reference).                          *)
(***************************************************************************)
EXTENDS Integers, Sequences, FiniteSets, TLC

VARIABLES
    cmd,            \* CLI subcommand being run: "build" or "validate"
    stdout,         \* lines printed with println!
    cause,          \* <<statement, detail>> of the error the command returned
    run,            \* "first" or "second" invocation over the same cache dir
    numCpus,        \* value returned by num_cpus::get()
    pc,             \* position of build()
    result,         \* "running", "ok" (build returned Ok) or "err"
    items,          \* landscape_data.items
    cache,          \* persistent cache: key -> raw bytes
    cachedAtStart,  \* keys present in the cache when this run started
    extCalls,       \* external calls made in this run, per key
    files,          \* output_dir/logos: file name -> content
    next,           \* index of the next item stream::iter will yield
    fut,            \* per item: state of its future in buffer_unordered
    res,            \* per item: what the spawned prepare_logo task returned
    io,             \* per item: outcome of File::create / write_all
    logos,          \* the collected HashMap<Uuid, Option<String>>
    cbState,        \* collect_crunchbase_data: "idle", "running", "done", "failed"
    ghState,        \* collect_github_data: "idle", "running", "done", "failed"
    cbPending,      \* crunchbase references still to be collected
    cbData,         \* crunchbase_data: reference -> record
    ghPending,      \* github references still to be collected
    ghData,         \* github_data: reference -> record
    mutations       \* order in which the item collection has been mutated

vars == <<cmd, stdout, cause, run, numCpus, pc, result, items, cache, cachedAtStart, extCalls,
          files, next, fut, res, io, logos, cbState, ghState, cbPending,
          cbData, ghPending, ghData, mutations>>

----------------------------------------------------------------------------
(* Bounds and program constants *)

NumItems == 3

PREPARE_LOGOS_MAX_CONCURRENCY == 20

LOGOS_PATH == "logos"

CpuCounts == {1, 2, 24}

----------------------------------------------------------------------------
(* Option<T> *)

None == <<>>

Some(x) == <<x>>

----------------------------------------------------------------------------
(* Input: the landscape data file and the external world (unchanged between
   the two runs). *)

InputCatalogue ==
    << [id |-> 11, logo |-> "u1", repo |-> "r1", org |-> "o1"],
       [id |-> 12, logo |-> "u2", repo |-> "r1", org |-> "o2"],
       [id |-> 13, logo |-> "u3", repo |-> "r2", org |-> "o1"],
       [id |-> 14, logo |-> "u1", repo |-> "r2", org |-> "o2"],
       [id |-> 15, logo |-> "u4", repo |-> "r1", org |-> "o1"] >>

InputItems == SubSeq(InputCatalogue, 1, NumItems)

\* Bytes served for a logo reference.
RemoteLogo(ref) ==
    CASE ref = "u1" -> <<"<svg>1</svg>">>
      [] ref = "u2" -> <<" ", "<svg>1</svg>", " ">>
      [] ref = "u3" -> <<"<svg>2</svg>">>
      [] OTHER      -> <<"<html>", "</html>">>

\* Body served for an external reference of a collector.
RemoteRecord(kind, ref) == <<kind, ref, "body">>

----------------------------------------------------------------------------
(* logos module: normalise, then digest *)

IsWhitespace(chunk) == chunk = " "

NotWhitespace(chunk) == ~IsWhitespace(chunk)

\* Canonical representation of the raw bytes, or None when they do not decode.
Normalize(raw) ==
    LET svg == SelectSeq(raw, NotWhitespace)
    IN  IF Len(svg) = 1 /\ svg[1] \in {"<svg>1</svg>", "<svg>2</svg>"}
        THEN Some(svg)
        ELSE None

\* Hex-encoded digest of the normalized bytes (collision free on the inputs).
Digest(svg) ==
    CASE svg = <<"<svg>1</svg>">> -> "a1f0"
      [] svg = <<"<svg>2</svg>">> -> "b2e7"
      [] OTHER                            -> "ffff"

NoResult == [kind |-> "none", digest |-> "", svg_data |-> <<>>]

ErrResult == [kind |-> "err", digest |-> "", svg_data |-> <<>>]

JoinErrResult == [kind |-> "join_err", digest |-> "", svg_data |-> <<>>]

\* Tail of prepare_logo once the raw bytes are at hand.
LogoFromBytes(raw) ==
    IF Normalize(raw) = None
    THEN ErrResult
    ELSE [kind |-> "ok", digest |-> Digest(Normalize(raw)[1]),
          svg_data |-> Normalize(raw)[1]]

----------------------------------------------------------------------------
(* cache module *)

LogoKey(ref) == <<"logo", ref>>

CacheGet(c, key) == IF key \in DOMAIN c THEN Some(c[key]) ELSE None

CachePut(c, key, bytes) == (key :> bytes) @@ c

RecordCall(calls, key) ==
    IF key \in DOMAIN calls
    THEN [calls EXCEPT ![key] = @ + 1]
    ELSE (key :> 1) @@ calls

Calls(key) == IF key \in DOMAIN extCalls THEN extCalls[key] ELSE 0

----------------------------------------------------------------------------
(* Helpers over the item collection *)

ItemIdx == 1..NumItems

Ids(its) == {its[i].id : i \in 1..Len(its)}

InFlight == {i \in ItemIdx : fut[i] \in {"lookup", "fetching", "ready"}}

Concurrency(cpus) ==
    IF cpus > PREPARE_LOGOS_MAX_CONCURRENCY
    THEN PREPARE_LOGOS_MAX_CONCURRENCY
    ELSE cpus

FileName(digest) == digest \o ".svg"

\* Variant: the path handed back lacks the logos directory.
LogoPath_NoDir(file_name) == file_name

LogoPath(file_name) == LOGOS_PATH \o "/" \o file_name

Prefixes(bytes) == {SubSeq(bytes, 1, n) : n \in 0..(Len(bytes) - 1)}

----------------------------------------------------------------------------
(* Initial state: nothing has run, the cache directory is empty. *)

NoCause == <<"", "">>

FreshRun ==
    /\ pc = IF cmd = "build" THEN "check_web_assets" ELSE "validate_data"
    /\ stdout = <<>>
    /\ cause = NoCause
    /\ result = "running"
    /\ items = <<>>
    /\ extCalls = <<>>
    /\ files = <<>>
    /\ next = 1
    /\ fut = [i \in ItemIdx |-> "pending"]
    /\ res = [i \in ItemIdx |-> NoResult]
    /\ io = [i \in ItemIdx |-> "none"]
    /\ logos = <<>>
    /\ cbState = "idle"
    /\ ghState = "idle"
    /\ cbPending = {}
    /\ cbData = <<>>
    /\ ghPending = {}
    /\ ghData = <<>>
    /\ mutations = <<>>

Init ==
    /\ cmd \in {"build", "validate"}
    /\ run = "first"
    /\ numCpus \in CpuCounts
    /\ cache = <<>>
    /\ cachedAtStart = {}
    /\ FreshRun

----------------------------------------------------------------------------
(* build(): the steps before the logo stage.  Each step either succeeds and
   build moves on, or fails and `?` makes build return the error. *)

\* Variant: the GitHub data is added before the Crunchbase data.
BuildOrder_GithubFirst ==
    << "check_web_assets", "setup_output_dir", "cache_new", "data_new",
       "settings_new", "add_featured_items_data", "get_settings_images",
       "prepare_guide", "prepare_items_logos", "collect_start", "collect",
       "add_github_data", "add_crunchbase_data", "generate_datasets",
       "render_index", "copy_web_assets", "generate_items_csv_file",
       "generate_projects_files", "done" >>

\* The statements of build(), in program order.
BuildOrder ==
    << "check_web_assets", "setup_output_dir", "cache_new", "data_new",
       "settings_new", "add_featured_items_data", "get_settings_images",
       "prepare_guide", "prepare_items_logos", "collect_start", "collect",
       "add_crunchbase_data", "add_github_data", "generate_datasets",
       "render_index", "copy_web_assets", "generate_items_csv_file",
       "generate_projects_files", "done" >>

Position(stmt) == CHOOSE n \in 1..Len(BuildOrder) : BuildOrder[n] = stmt

Following(stmt) == BuildOrder[Position(stmt) + 1]

\* Statements that run once the enrichment is over.
Downstream == {BuildOrder[n] : n \in (Position("generate_datasets"))..Len(BuildOrder)}

Proceed(from) ==
    pc = from /\ pc' = Following(from) /\ result' = result /\ cause' = cause

\* `?` on an Err: the command returns the error of statement `from`.
AbortWith(from, detail) ==
    pc = from /\ pc' = "failed" /\ result' = "err" /\ cause' = <<from, detail>>

Abort(from) == AbortWith(from, "error")

runVars == <<cmd, stdout, run, numCpus, cachedAtStart>>

fanoutVars == <<next, fut, res, io, logos>>

collectVars == <<cbState, ghState, cbPending, cbData, ghPending, ghData>>

storeVars == <<cache, extCalls, files>>

\* A step of build that touches nothing but build's own position.
PlainStep(from, ok) ==
    /\ IF ok THEN Proceed(from) ELSE Abort(from)
    /\ UNCHANGED <<runVars, items, storeVars, fanoutVars, collectVars, mutations>>

check_web_assets(ok) == PlainStep("check_web_assets", ok)

setup_output_dir(ok) == PlainStep("setup_output_dir", ok)

\* Variant: every run opens a new, empty cache instead of args.cache_dir.
cache_new_Fresh(ok) ==
    /\ IF ok THEN Proceed("cache_new") ELSE Abort("cache_new")
    /\ cache' = <<>>
    /\ UNCHANGED <<runVars, items, extCalls, files, fanoutVars, collectVars,
                   mutations>>

\* Cache::new(&args.cache_dir)?
cache_new(ok) == PlainStep("cache_new", ok)

NewItem(src) ==
    [id |-> src.id, logo |-> src.logo, repo |-> src.repo, org |-> src.org,
     featured |-> FALSE, crunchbase |-> None, github |-> None]

\* LandscapeData::new(&args.data_source)
data_new(ok) ==
    /\ IF ok THEN Proceed("data_new") ELSE Abort("data_new")
    /\ items' = IF ok THEN [i \in ItemIdx |-> NewItem(InputItems[i])] ELSE items
    /\ UNCHANGED <<runVars, storeVars, fanoutVars, collectVars, mutations>>

settings_new(ok) == PlainStep("settings_new", ok)

FeaturedIds == {11}

\* landscape_data.add_featured_items_data(&settings)? followed by
\* landscape_data.add_member_subcategory(..)
add_featured_items_data(ok) ==
    /\ IF ok THEN Proceed("add_featured_items_data")
             ELSE Abort("add_featured_items_data")
    /\ items' = IF ok
                THEN [i \in ItemIdx |->
                        [items[i] EXCEPT !.featured = (items[i].id \in FeaturedIds)]]
                ELSE items
    /\ UNCHANGED <<runVars, storeVars, fanoutVars, collectVars, mutations>>

\* Outcome of process_image for one configured image url.
ImageOutcomes == {"ok", "status_not_ok", "io_error"}

\* try_join! over the process_image calls (the footer logo is not set, the
\* favicon and the header logo are): an error of either is returned by `?`.
get_settings_images(favicon, header_logo) ==
    /\ IF favicon = "ok" /\ header_logo = "ok"
       THEN Proceed("get_settings_images")
       ELSE \E detail \in {favicon, header_logo} \ {"ok"} :
               AbortWith("get_settings_images", detail)
    /\ UNCHANGED <<runVars, items, storeVars, fanoutVars, collectVars, mutations>>

prepare_guide(ok) == PlainStep("prepare_guide", ok)

----------------------------------------------------------------------------
(* prepare_items_logos: fan-out with buffer_unordered(concurrency) *)

\* Variant: the limit is compared with <= (one future too many).
CanStart_OffByOne(inflight, cpus) == Cardinality(inflight) <= Concurrency(cpus)

\* buffer_unordered pulls the next future only while fewer than
\* `concurrency` futures are in flight.
CanStart(inflight, cpus) == Cardinality(inflight) < Concurrency(cpus)

\* Variant: the stream yields every other item.
StreamNext_Skips(n) == n + 2

\* stream::iter(landscape_data.items.iter()) yields the items one by one.
StreamNext(n) == n + 1

\* stream::iter(items).map(..) yields the next item; its future is polled and
\* spawns the prepare_logo task.
StartLogo ==
    /\ pc = "prepare_items_logos"
    /\ next <= Len(items)
    /\ CanStart(InFlight, numCpus)
    /\ fut' = [fut EXCEPT ![next] = "lookup"]
    /\ next' = StreamNext(next)
    /\ UNCHANGED <<runVars, pc, result, cause, items, storeVars, res, io, logos,
                   collectVars, mutations>>

\* prepare_logo, first half: consult the cache; on a miss go to the source.
TaskLookup(i) ==
    /\ pc = "prepare_items_logos"
    /\ fut[i] = "lookup"
    /\ LET key == LogoKey(items[i].logo)
           hit == CacheGet(cache, key)
       IN  IF hit # None
           THEN /\ res' = [res EXCEPT ![i] = LogoFromBytes(hit[1])]
                /\ fut' = [fut EXCEPT ![i] = "ready"]
                /\ extCalls' = extCalls
           ELSE /\ res' = res
                /\ fut' = [fut EXCEPT ![i] = "fetching"]
                /\ extCalls' = RecordCall(extCalls, key)
    /\ UNCHANGED <<runVars, pc, result, cause, items, cache, files, next, io, logos,
                   collectVars, mutations>>

\* Variant: a failed request leaves an empty entry behind.
CacheAfterFetch_CachesFailure(c, key, ok, bytes) ==
    CachePut(c, key, IF ok THEN bytes ELSE <<>>)

\* What a miss leaves in the cache once the source has answered.
CacheAfterFetch(c, key, ok, bytes) == IF ok THEN CachePut(c, key, bytes) ELSE c

\* prepare_logo, second half: the source answered (ok) or the request failed.
TaskFetched(i, ok) ==
    /\ pc = "prepare_items_logos"
    /\ fut[i] = "fetching"
    /\ LET ref == items[i].logo
       IN  /\ cache' = CacheAfterFetch(cache, LogoKey(ref), ok, RemoteLogo(ref))
           /\ res' = [res EXCEPT ![i] =
                        IF ok THEN LogoFromBytes(RemoteLogo(ref)) ELSE ErrResult]
    /\ fut' = [fut EXCEPT ![i] = "ready"]
    /\ UNCHANGED <<runVars, pc, result, cause, items, extCalls, files, next, io, logos,
                   collectVars, mutations>>

\* Variant: the JoinError of a faulted task is propagated with `?`.
TaskPanic_Aborts(i) ==
    /\ pc = "prepare_items_logos"
    /\ fut[i] \in {"lookup", "fetching"}
    /\ Abort("prepare_items_logos")
    /\ UNCHANGED <<runVars, items, storeVars, fanoutVars, collectVars, mutations>>

\* The spawned task faults: tokio::spawn(..).await yields a JoinError.
TaskPanic(i) ==
    /\ pc = "prepare_items_logos"
    /\ fut[i] \in {"lookup", "fetching"}
    /\ res' = [res EXCEPT ![i] = JoinErrResult]
    /\ fut' = [fut EXCEPT ![i] = "ready"]
    /\ UNCHANGED <<runVars, pc, result, cause, items, storeVars, next, io, logos,
                   collectVars, mutations>>

\* Outcome of the copy to the output dir (File::create, then write_all).
IoOutcomes == {"written", "create_failed", "write_failed"}

\* The (id, Option<String>) the future of an item returns.
LogoEntry(r, outcome) ==
    IF r.kind # "ok" THEN None
    ELSE IF outcome = "create_failed" THEN None
    ELSE Some(LogoPath(FileName(r.digest)))

\* Variant: the file is opened for appending instead of being truncated.
FilesAfterCopy_Appends(fs, r, outcome, partial) ==
    LET name == FileName(r.digest)
        old == IF name \in DOMAIN fs THEN fs[name] ELSE <<>>
    IN  IF r.kind # "ok" \/ outcome = "create_failed" THEN fs
        ELSE IF outcome = "written" THEN (name :> old \o r.svg_data) @@ fs
        ELSE (name :> old \o partial) @@ fs

\* Content of the logos directory after the copy.
FilesAfterCopy(fs, r, outcome, partial) ==
    IF r.kind # "ok" \/ outcome = "create_failed" THEN fs
    ELSE IF outcome = "written" THEN (FileName(r.digest) :> r.svg_data) @@ fs
    ELSE (FileName(r.digest) :> partial) @@ fs

\* Variant: pairs without a logo are filtered out before collecting.
InsertLogo_SkipsNone(lg, id, entry) == IF entry = None THEN lg ELSE (id :> entry) @@ lg

\* collect() into the HashMap: a later pair for the same key replaces it.
InsertLogo(lg, id, entry) == (id :> entry) @@ lg

\* Variant: pairs are matched to the items by order of completion.
LogoDone_ByArrival(i, outcome, partial) ==
    /\ pc = "prepare_items_logos"
    /\ fut[i] = "ready"
    /\ IF res[i].kind = "ok"
       THEN partial \in Prefixes(res[i].svg_data)
       ELSE outcome = "written" /\ partial = <<>>
    /\ outcome = "written" => partial = <<>>
    /\ outcome = "create_failed" => partial = <<>>
    /\ files' = FilesAfterCopy(files, res[i], outcome, partial)
    /\ io' = [io EXCEPT ![i] = IF res[i].kind = "ok" THEN outcome ELSE "none"]
    /\ logos' = InsertLogo(logos, items[Cardinality(DOMAIN logos) + 1].id,
                           LogoEntry(res[i], outcome))
    /\ fut' = [fut EXCEPT ![i] = "done"]
    /\ UNCHANGED <<runVars, pc, result, cause, items, cache, extCalls, next, res,
                   collectVars, mutations>>

\* The future resumes after the task: match on its result, copy the logo to
\* the output dir and return; collect() inserts the pair into the map.
LogoDone(i, outcome, partial) ==
    /\ pc = "prepare_items_logos"
    /\ fut[i] = "ready"
    /\ IF res[i].kind = "ok"
       THEN partial \in Prefixes(res[i].svg_data)
       ELSE outcome = "written" /\ partial = <<>>
    /\ outcome = "written" => partial = <<>>
    /\ outcome = "create_failed" => partial = <<>>
    /\ files' = FilesAfterCopy(files, res[i], outcome, partial)
    /\ io' = [io EXCEPT ![i] = IF res[i].kind = "ok" THEN outcome ELSE "none"]
    /\ logos' = InsertLogo(logos, items[i].id, LogoEntry(res[i], outcome))
    /\ fut' = [fut EXCEPT ![i] = "done"]
    /\ UNCHANGED <<runVars, pc, result, cause, items, cache, extCalls, next, res,
                   collectVars, mutations>>

\* Variant: the update loop starts as soon as the stream is exhausted.
Drained_StreamExhausted == next > Len(items)

\* The stream is exhausted and no future is in flight: collect() returns.
Drained == next > Len(items) /\ InFlight = {}

\* Variant: an item without a prepared logo keeps its original reference.
UpdatedLogo_KeepsOriginal(lg, item) ==
    IF item.id \in DOMAIN lg /\ lg[item.id] # None THEN lg[item.id][1] ELSE item.logo

\* item.logo after the update loop.
UpdatedLogo(lg, item) ==
    IF item.id \in DOMAIN lg /\ lg[item.id] # None THEN lg[item.id][1] ELSE ""

\* Variant: items without a prepared logo are removed from the collection.
MergeLogos_DropsFailed(its, lg) ==
    SelectSeq([i \in 1..Len(its) |-> [its[i] EXCEPT !.logo = UpdatedLogo(lg, its[i])]],
              LAMBDA it : it.logo # "")

\* for item in &mut landscape_data.items { item.logo = .. }
MergeLogos(its, lg) ==
    [i \in 1..Len(its) |-> [its[i] EXCEPT !.logo = UpdatedLogo(lg, its[i])]]

\* Update logo field in landscape items, then return Ok(()): the locals of
\* prepare_items_logos (the stream, the map) are dropped.
UpdateLogos ==
    /\ pc = "prepare_items_logos"
    /\ Drained
    /\ items' = MergeLogos(items, logos)
    /\ mutations' = Append(mutations, "logo")
    /\ Proceed("prepare_items_logos")
    /\ next' = 1
    /\ fut' = [i \in ItemIdx |-> "pending"]
    /\ res' = [i \in ItemIdx |-> NoResult]
    /\ io' = [i \in ItemIdx |-> "none"]
    /\ logos' = <<>>
    /\ UNCHANGED <<runVars, storeVars, collectVars>>

----------------------------------------------------------------------------
(* Collection of Crunchbase and GitHub data, joined with try_join! *)

CollectorKey(kind, ref) == <<kind, ref>>

\* Typed record parsed from a response body, or None when it is malformed.
ParseRecord(body) ==
    IF Len(body) = 3 /\ body[3] = "body" THEN Some(<<body[1], body[2]>>) ELSE None

\* Distinct references of the items, per source.
CrunchbaseRefs(its) == {its[i].org : i \in 1..Len(its)}

GithubRefs(its) == {its[i].repo : i \in 1..Len(its)}

\* A collector returns Ok once none of its references is left.
StateAfter(pending) == IF pending = {} THEN "done" ELSE "running"

\* try_join! polls both collectors: each extracts its references.
StartCollect ==
    /\ Proceed("collect_start")
    /\ cbPending' = CrunchbaseRefs(items)
    /\ ghPending' = GithubRefs(items)
    /\ cbState' = StateAfter(CrunchbaseRefs(items))
    /\ ghState' = StateAfter(GithubRefs(items))
    /\ UNCHANGED <<runVars, items, storeVars, fanoutVars, cbData, ghData,
                   mutations>>

\* Variant: a failed reference discards what the batch has collected.
Collected_FailureClears(data, kind, ref, ok) ==
    LET key == CollectorKey(kind, ref)
        hit == CacheGet(cache, key)
    IN  IF hit # None \/ ok
        THEN (ref :> ParseRecord(RemoteRecord(kind, ref))[1]) @@ data
        ELSE <<>>

\* Fetch-or-compute for one reference, then parse; `ok` is the outcome of the
\* external request when the cache misses.
Collected(data, kind, ref, ok) ==
    LET key == CollectorKey(kind, ref)
        hit == CacheGet(cache, key)
        body == IF hit # None THEN hit
                ELSE IF ok THEN Some(RemoteRecord(kind, ref)) ELSE None
    IN  IF body # None /\ ParseRecord(body[1]) # None
        THEN (ref :> ParseRecord(body[1])[1]) @@ data
        ELSE data

CollectStores(kind, ref, ok) ==
    LET key == CollectorKey(kind, ref)
    IN  IF CacheGet(cache, key) # None
        THEN UNCHANGED <<cache, extCalls>>
        ELSE /\ extCalls' = RecordCall(extCalls, key)
             /\ cache' = CacheAfterFetch(cache, key, ok, RemoteRecord(kind, ref))

collect_crunchbase_ref(ref, ok) ==
    /\ pc = "collect"
    /\ cbState = "running"
    /\ ref \in cbPending
    /\ cbPending' = cbPending \ {ref}
    /\ cbState' = StateAfter(cbPending \ {ref})
    /\ cbData' = Collected(cbData, "crunchbase", ref, ok)
    /\ CollectStores("crunchbase", ref, ok)
    /\ UNCHANGED <<runVars, pc, result, cause, items, files, fanoutVars, ghState,
                   ghPending, ghData, mutations>>

collect_github_ref(ref, ok) ==
    /\ pc = "collect"
    /\ ghState = "running"
    /\ ref \in ghPending
    /\ ghPending' = ghPending \ {ref}
    /\ ghState' = StateAfter(ghPending \ {ref})
    /\ ghData' = Collected(ghData, "github", ref, ok)
    /\ CollectStores("github", ref, ok)
    /\ UNCHANGED <<runVars, pc, result, cause, items, files, fanoutVars, cbState,
                   cbPending, cbData, mutations>>

\* Variant: the error of a collector is dropped and build goes on.
collect_failed_Continues(kind) ==
    /\ pc = "collect"
    /\ \/ kind = "crunchbase" /\ cbState = "running"
          /\ cbState' = "failed" /\ ghState' = ghState
       \/ kind = "github" /\ ghState = "running"
          /\ ghState' = "failed" /\ cbState' = cbState
    /\ Proceed("collect")
    /\ UNCHANGED <<runVars, items, storeVars, fanoutVars, cbPending, cbData,
                   ghPending, ghData, mutations>>

\* A collector as a whole returns Err: try_join! returns it at once and `?`
\* makes build return it.
collect_failed(kind) ==
    /\ pc = "collect"
    /\ \/ kind = "crunchbase" /\ cbState = "running"
          /\ cbState' = "failed" /\ ghState' = ghState
       \/ kind = "github" /\ ghState = "running"
          /\ ghState' = "failed" /\ cbState' = cbState
    /\ AbortWith("collect", kind)
    /\ UNCHANGED <<runVars, items, storeVars, fanoutVars, cbPending, cbData,
                   ghPending, ghData, mutations>>

\* Variant: the first collector to return Ok ends the wait.
BothCollected_Either(cb, gh) == cb = "done" \/ gh = "done"

\* try_join! returns the pair once both collectors have returned Ok.
BothCollected(cb, gh) == cb = "done" /\ gh = "done"

try_join_done ==
    /\ BothCollected(cbState, ghState)
    /\ Proceed("collect")
    /\ UNCHANGED <<runVars, items, storeVars, fanoutVars, collectVars, mutations>>

Attach(data, ref) == IF ref \in DOMAIN data THEN Some(data[ref]) ELSE None

\* landscape_data.add_crunchbase_data(crunchbase_data)?
add_crunchbase_data(ok) ==
    /\ IF ok THEN Proceed("add_crunchbase_data")
             ELSE Abort("add_crunchbase_data")
    /\ items' = IF ok
                THEN [i \in 1..Len(items) |->
                        [items[i] EXCEPT !.crunchbase = Attach(cbData, items[i].org)]]
                ELSE items
    /\ mutations' = IF ok THEN Append(mutations, "crunchbase") ELSE mutations
    /\ UNCHANGED <<runVars, storeVars, fanoutVars, collectVars>>

\* landscape_data.add_github_data(github_data)?
add_github_data(ok) ==
    /\ IF ok THEN Proceed("add_github_data")
             ELSE Abort("add_github_data")
    /\ items' = IF ok
                THEN [i \in 1..Len(items) |->
                        [items[i] EXCEPT !.github = Attach(ghData, items[i].repo)]]
                ELSE items
    /\ mutations' = IF ok THEN Append(mutations, "github") ELSE mutations
    /\ UNCHANGED <<runVars, storeVars, fanoutVars, collectVars>>

----------------------------------------------------------------------------
(* Downstream of the enrichment: the items are only read. *)

\* Variant: generating the datasets takes the items out of the collection.
generate_datasets_Drains(ok) ==
    /\ IF ok THEN Proceed("generate_datasets") ELSE Abort("generate_datasets")
    /\ items' = <<>>
    /\ UNCHANGED <<runVars, storeVars, fanoutVars, collectVars, mutations>>

generate_datasets(ok) == PlainStep("generate_datasets", ok)

render_index(ok) == PlainStep("render_index", ok)

copy_web_assets(ok) == PlainStep("copy_web_assets", ok)

generate_items_csv_file(ok) ==
    PlainStep("generate_items_csv_file", ok)

generate_projects_files(ok) ==
    /\ pc = "generate_projects_files"
    /\ pc' = IF ok THEN Following("generate_projects_files") ELSE "failed"
    /\ result' = IF ok THEN "ok" ELSE "err"
    /\ cause' = IF ok THEN cause ELSE <<"generate_projects_files", "error">>
    /\ UNCHANGED <<runVars, items, storeVars, fanoutVars, collectVars, mutations>>

----------------------------------------------------------------------------
(* validate_data (src/validate/mod.rs) *)

VALID_MESSAGE == "The landscape data file provided is valid!"

NOT_VALID_CONTEXT == "the landscape data file provided is not valid"

buildVars == <<run, numCpus, cachedAtStart, storeVars, fanoutVars, collectVars,
               mutations>>

\* Variant: the error of the load is dropped.
validate_load_IgnoresError(ok) ==
    /\ cmd = "validate"
    /\ pc = "validate_data"
    /\ pc' = "validate_report"
    /\ result' = result
    /\ cause' = cause
    /\ items' = IF ok THEN [i \in ItemIdx |-> NewItem(InputItems[i])] ELSE items
    /\ UNCHANGED <<cmd, stdout, buildVars>>

\* LandscapeData::new(data_source).await.context(..)?
validate_load(ok) ==
    /\ cmd = "validate"
    /\ pc = "validate_data"
    /\ IF ok
       THEN /\ pc' = "validate_report"
            /\ result' = result
            /\ cause' = cause
            /\ items' = [i \in ItemIdx |-> NewItem(InputItems[i])]
       ELSE /\ AbortWith("validate_data", NOT_VALID_CONTEXT)
            /\ items' = items
    /\ UNCHANGED <<cmd, stdout, buildVars>>

\* println!(..); Ok(())
validate_report ==
    /\ cmd = "validate"
    /\ pc = "validate_report"
    /\ stdout' = Append(stdout, VALID_MESSAGE)
    /\ pc' = "validate_returned"
    /\ result' = "ok"
    /\ UNCHANGED <<cmd, cause, items, buildVars>>

----------------------------------------------------------------------------
(* A second invocation of build over the same cache directory and the same
   input, writing to an empty output directory. *)

Finished == pc \in {"done", "failed"}

NewRun ==
    /\ cmd = "build"
    /\ run = "first"
    /\ Finished
    /\ run' = "second"
    /\ cachedAtStart' = DOMAIN cache
    /\ pc' = "check_web_assets"
    /\ result' = "running"
    /\ items' = <<>>
    /\ extCalls' = <<>>
    /\ files' = <<>>
    /\ next' = 1
    /\ fut' = [i \in ItemIdx |-> "pending"]
    /\ res' = [i \in ItemIdx |-> NoResult]
    /\ io' = [i \in ItemIdx |-> "none"]
    /\ logos' = <<>>
    /\ cbState' = "idle"
    /\ ghState' = "idle"
    /\ cbPending' = {}
    /\ cbData' = <<>>
    /\ ghPending' = {}
    /\ ghData' = <<>>
    /\ mutations' = <<>>
    /\ cause' = NoCause
    /\ UNCHANGED <<cmd, stdout, numCpus, cache>>

----------------------------------------------------------------------------

Next ==
    \/ \E ok \in BOOLEAN : check_web_assets(ok)
    \/ \E ok \in BOOLEAN : setup_output_dir(ok)
    \/ \E ok \in BOOLEAN : cache_new(ok)
    \/ \E ok \in BOOLEAN : data_new(ok)
    \/ \E ok \in BOOLEAN : settings_new(ok)
    \/ \E ok \in BOOLEAN : add_featured_items_data(ok)
    \/ \E f, h \in ImageOutcomes : get_settings_images(f, h)
    \/ \E ok \in BOOLEAN : prepare_guide(ok)
    \/ StartLogo
    \/ \E i \in ItemIdx : TaskLookup(i)
    \/ \E i \in ItemIdx, ok \in BOOLEAN : TaskFetched(i, ok)
    \/ \E i \in ItemIdx : TaskPanic(i)
    \/ \E i \in ItemIdx, o \in IoOutcomes :
          \E p \in {<<>>} \cup Prefixes(res[i].svg_data) : LogoDone(i, o, p)
    \/ UpdateLogos
    \/ StartCollect
    \/ \E r \in cbPending, ok \in BOOLEAN : collect_crunchbase_ref(r, ok)
    \/ \E r \in ghPending, ok \in BOOLEAN : collect_github_ref(r, ok)
    \/ \E k \in {"crunchbase", "github"} : collect_failed(k)
    \/ try_join_done
    \/ \E ok \in BOOLEAN : add_crunchbase_data(ok)
    \/ \E ok \in BOOLEAN : add_github_data(ok)
    \/ \E ok \in BOOLEAN : generate_datasets(ok)
    \/ \E ok \in BOOLEAN : render_index(ok)
    \/ \E ok \in BOOLEAN : copy_web_assets(ok)
    \/ \E ok \in BOOLEAN : generate_items_csv_file(ok)
    \/ \E ok \in BOOLEAN : generate_projects_files(ok)
    \/ \E ok \in BOOLEAN : validate_load(ok)
    \/ validate_report

Spec == Init /\ [][Next]_vars

----------------------------------------------------------------------------
(* Two consecutive runs over the same cache directory.  The runs explored
   are those in which the output directory accepts every logo; requests to
   the external sources fail and spawned tasks fault at will. *)

NextRuns ==
    \/ \E ok \in BOOLEAN : check_web_assets(ok)
    \/ \E ok \in BOOLEAN : setup_output_dir(ok)
    \/ \E ok \in BOOLEAN : cache_new(ok)
    \/ \E ok \in BOOLEAN : data_new(ok)
    \/ \E ok \in BOOLEAN : settings_new(ok)
    \/ \E ok \in BOOLEAN : add_featured_items_data(ok)
    \/ \E f, h \in ImageOutcomes : get_settings_images(f, h)
    \/ \E ok \in BOOLEAN : prepare_guide(ok)
    \/ StartLogo
    \/ \E i \in ItemIdx : TaskLookup(i)
    \/ \E i \in ItemIdx, ok \in BOOLEAN : TaskFetched(i, ok)
    \/ \E i \in ItemIdx : TaskPanic(i)
    \/ \E i \in ItemIdx : LogoDone(i, "written", <<>>)
    \/ UpdateLogos
    \/ StartCollect
    \/ \E r \in cbPending, ok \in BOOLEAN : collect_crunchbase_ref(r, ok)
    \/ \E r \in ghPending, ok \in BOOLEAN : collect_github_ref(r, ok)
    \/ \E k \in {"crunchbase", "github"} : collect_failed(k)
    \/ try_join_done
    \/ \E ok \in BOOLEAN : add_crunchbase_data(ok)
    \/ \E ok \in BOOLEAN : add_github_data(ok)
    \/ \E ok \in BOOLEAN : generate_datasets(ok)
    \/ \E ok \in BOOLEAN : render_index(ok)
    \/ \E ok \in BOOLEAN : copy_web_assets(ok)
    \/ \E ok \in BOOLEAN : generate_items_csv_file(ok)
    \/ \E ok \in BOOLEAN : generate_projects_files(ok)
    \/ \E ok \in BOOLEAN : validate_load(ok)
    \/ validate_report
    \/ NewRun

SpecRuns == Init /\ [][NextRuns]_vars

----------------------------------------------------------------------------
(* Properties *)

\* The step in which prepare_items_logos runs its update loop and returns.
LogoStageReturns == pc = "prepare_items_logos" /\ pc' # "prepare_items_logos"

PathOfDigest(d) == "logos/" \o d \o ".svg"

\* C1: during the logo fan-out the number of logo preparations in flight
\* (started, not yet completed) never exceeds min(logical CPU count, 20).
C1_ConcurrencyBound ==
    /\ Cardinality(InFlight) <= numCpus
    /\ Cardinality(InFlight) <= 20

\* The cap binds: as many preparations in flight as CPUs, an item waiting.
C1_Witness ==
    /\ pc = "prepare_items_logos"
    /\ numCpus = 2
    /\ Cardinality(InFlight) = 2
    /\ next <= Len(items)

\* The logo an item ends with, as a function of its own outcome alone.
OwnLogo(r, copy) ==
    IF r.kind = "ok" /\ copy # "create_failed" THEN PathOfDigest(r.digest) ELSE ""

\* C2: an item whose prepare_logo returned an error, or whose task faulted,
\* ends with the empty logo; prepare_items_logos still returns Ok; and every
\* item's logo is determined by its own outcome, whatever happened to the
\* other items.
C2_LogoFailureIsolation ==
    [][ /\ pc = "prepare_items_logos" => pc' # "failed"
        /\ LogoStageReturns =>
             /\ result' = "running"
             /\ pc' = "collect_start"
             /\ \A i \in 1..Len(items) :
                  /\ res[i].kind \in {"err", "join_err"} => items'[i].logo = ""
                  /\ items'[i].logo = OwnLogo(res[i], io[i]) ]_vars

\* One run: item 1 could not be prepared (its reference never reached the
\* cache), items 2 and 3 have their logos, and the build has moved on.
C2_Witness ==
    /\ run = "first"
    /\ pc = "collect_start"
    /\ LogoKey("u1") \notin DOMAIN cache
    /\ items[1].logo = ""
    /\ items[2].logo = "logos/a1f0.svg"
    /\ items[3].logo = "logos/b2e7.svg"

\* C3: an item whose output file could not be created, or could not be
\* written, ends the stage with the empty logo.
C3_WriteErrorEmptiesLogo ==
    [][ LogoStageReturns =>
          \A i \in 1..Len(items) :
              io[i] \in {"create_failed", "write_failed"} => items'[i].logo = "" ]_vars

IdSeq(its) == [i \in 1..Len(its) |-> its[i].id]

\* C4: once loaded, the identities of the items are those of the input, in the
\* same order, through every enrichment phase and whatever fails; the logo
\* rewrite changes nothing but the logo field of each item.
C4_Completeness ==
    /\ [](items = <<>> \/ IdSeq(items) = IdSeq(InputItems))
    /\ [][ LogoStageReturns =>
             /\ Len(items') = Len(items)
             /\ \A i \in 1..Len(items) :
                  [items'[i] EXCEPT !.logo = items[i].logo] = items[i] ]_vars

\* All three enrichment phases ran although a logo and a reference of each
\* collector failed.
C4_Witness ==
    /\ pc = "generate_datasets"
    /\ \E i \in 1..Len(items) : items[i].logo = ""
    /\ \E i \in 1..Len(items) : items[i].logo # ""
    /\ \E i \in 1..Len(items) : items[i].crunchbase = None
    /\ \E i \in 1..Len(items) : items[i].github = None
    /\ \E i \in 1..Len(items) : items[i].github # None

\* C5: when the fan-out has drained the map holds exactly one entry per item:
\* Some(path) for an item that was prepared and copied, None otherwise.
C5_ResultMapComplete ==
    (pc = "prepare_items_logos" /\ Drained) =>
        /\ DOMAIN logos = Ids(items)
        /\ Cardinality(DOMAIN logos) = Len(items)
        /\ \A i \in 1..Len(items) :
             logos[items[i].id] =
                IF res[i].kind = "ok" /\ io[i] # "create_failed"
                THEN Some(PathOfDigest(res[i].digest))
                ELSE None

\* Drained with a failure completed first and a success last.
C5_Witness ==
    /\ pc = "prepare_items_logos"
    /\ Drained
    /\ Len(items) = NumItems
    /\ logos[items[1].id] = None
    /\ logos[items[2].id] # None
    /\ res[3].kind = "join_err"

\* C6: items whose logos have the same digest and are prepared and written
\* end with the same path logos/<digest>.svg; the logos directory holds one
\* file per digest, however many items share it; and after any number of
\* complete writes of a digest the file holds exactly the normalized bytes.
C6_Dedup ==
    [][ LogoStageReturns =>
          LET copied == {i \in 1..Len(items) :
                            res[i].kind = "ok" /\ io[i] # "create_failed"}
          IN  /\ \A i, j \in 1..Len(items) :
                   ( /\ res[i].kind = "ok" /\ io[i] = "written"
                     /\ res[j].kind = "ok" /\ io[j] = "written"
                     /\ res[i].digest = res[j].digest )
                   => /\ items'[i].logo = items'[j].logo
                      /\ items'[i].logo = PathOfDigest(res[i].digest)
              /\ DOMAIN files = {res[i].digest \o ".svg" : i \in copied}
              /\ Cardinality(DOMAIN files) = Cardinality({res[i].digest : i \in copied})
              /\ \A i \in copied :
                   (\A j \in copied :
                       res[j].digest = res[i].digest => io[j] = "written")
                   => files[res[i].digest \o ".svg"] = res[i].svg_data ]_vars

\* Items 1 and 2 (different sources, same normalized bytes) were both written;
\* one file holds their logo.
C6_Witness ==
    /\ pc = "prepare_items_logos"
    /\ Drained
    /\ io[1] = "written" /\ io[2] = "written"
    /\ res[1].digest = res[2].digest
    /\ logos[items[1].id] = logos[items[2].id]
    /\ DOMAIN files = {"a1f0.svg"}
    /\ files["a1f0.svg"] = <<"<svg>1</svg>">>

\* C7: the items are not touched while the fan-out runs; their logo fields
\* are written in the one step that follows the drained fan-out.
C7_MergeAfterDrain ==
    [][ /\ (pc = "prepare_items_logos" /\ items' # items) =>
             /\ \A i \in ItemIdx : fut[i] \notin {"lookup", "fetching", "ready"}
             /\ \A i \in 1..Len(items) : fut[i] = "done"
             /\ LogoStageReturns
        /\ (pc = "prepare_items_logos" /\ (next' # next \/ fut' # fut)
               /\ ~LogoStageReturns) => items' = items ]_vars

\* Two CPUs, three items: the fan-out ran in waves and every logo was
\* rewritten afterwards.
C7_Witness ==
    /\ pc = "collect_start"
    /\ numCpus = 2
    /\ \A i \in 1..Len(items) : items[i].logo = "logos/" \o Digest(Normalize(RemoteLogo(InputItems[i].logo))[1]) \o ".svg"

\* C8: the merges start only when both collectors have returned; dataset
\* generation starts only after the logo rewrite and both merges.
C8_DatasetsAfterMerges ==
    /\ pc \in {"add_crunchbase_data", "add_github_data"} \cup Downstream =>
          /\ cbState = "done" /\ cbPending = {}
          /\ ghState = "done" /\ ghPending = {}
          /\ Len(mutations) >= 1 /\ mutations[1] = "logo"
    /\ pc \in Downstream =>
          /\ {mutations[n] : n \in 1..Len(mutations)} = {"logo", "crunchbase", "github"}
          /\ \A i \in 1..Len(items) :
               /\ items[i].crunchbase = Attach(cbData, items[i].org)
               /\ items[i].github = Attach(ghData, items[i].repo)

\* Dataset generation is about to start with records of both sources merged.
C8_Witness ==
    /\ pc = "generate_datasets"
    /\ \E i \in 1..Len(items) : items[i].crunchbase # None
    /\ \E i \in 1..Len(items) : items[i].github # None

\* C9 (as stated): when dataset generation is reached the items have been
\* mutated by the logo rewrite, then the GitHub merge, then the Crunchbase
\* merge.
C9_LogoGithubCrunchbase ==
    pc \in Downstream => mutations = <<"logo", "github", "crunchbase">>

\* C9 (amended): when dataset generation is reached the items have been
\* mutated by the logo rewrite, then the Crunchbase merge, then the GitHub
\* merge.
C9_LogoCrunchbaseGithub ==
    pc \in Downstream => mutations = <<"logo", "crunchbase", "github">>

\* A build that returned Ok after the three mutations.
C9_Witness ==
    /\ pc = "done"
    /\ result = "ok"
    /\ Len(mutations) = 3

\* C10: in the second run no external call is made for a key that the first
\* run left in the cache; a logo task whose key is cached never waits for the
\* source and returns the logo made of the cached bytes.
C10_CacheIdempotence ==
    run = "second" =>
        /\ \A k \in cachedAtStart : Calls(k) = 0 /\ k \in DOMAIN cache
        /\ pc = "prepare_items_logos" =>
             \A i \in 1..Len(items) :
                LogoKey(items[i].logo) \in cachedAtStart =>
                    /\ fut[i] # "fetching"
                    /\ res[i].kind \notin {"none", "join_err"} =>
                         res[i] = LogoFromBytes(cache[LogoKey(items[i].logo)])

\* Second run: the logo of item 1 came from the cache without a call, the
\* logo of item 3, not cached by the first run, was fetched again.
C10_Witness ==
    /\ run = "second"
    /\ pc = "collect_start"
    /\ LogoKey("u1") \in cachedAtStart
    /\ LogoKey("u3") \notin cachedAtStart
    /\ Calls(LogoKey("u1")) = 0
    /\ Calls(LogoKey("u3")) = 1
    /\ items[1].logo = "logos/a1f0.svg"

\* Bytes the external source serves for a cache key.
RemoteBytes(key) ==
    IF key[1] = "logo" THEN RemoteLogo(key[2]) ELSE RemoteRecord(key[1], key[2])

\* C11: the cache gains an entry only through an external call that
\* succeeded, and holds the fetched bytes; the entry is there when the value
\* reaches the caller; a failed fetch leaves the cache as it was, so the next
\* run calls the source again for that key.
C11_NoFailureCached ==
    /\ [](/\ \A k \in DOMAIN cache : cache[k] = RemoteBytes(k)
          /\ \A k \in (DOMAIN cache) \ cachedAtStart : Calls(k) >= 1
          /\ pc = "prepare_items_logos" =>
               \A i \in 1..Len(items) :
                  /\ (fut[i] = "ready" /\ res[i].kind = "ok") =>
                        /\ LogoKey(items[i].logo) \in DOMAIN cache
                        /\ res[i].svg_data =
                             SelectSeq(cache[LogoKey(items[i].logo)], NotWhitespace)
                  /\ ( /\ LogoKey(items[i].logo) \notin cachedAtStart
                       /\ fut[i] = "fetching" \/ res[i].kind \in {"ok", "err"} )
                     => Calls(LogoKey(items[i].logo)) >= 1)
    /\ [][ /\ \A k \in DOMAIN cache : k \in DOMAIN cache' /\ cache'[k] = cache[k]
           /\ \A i \in 1..Len(items) :
                ( /\ pc = "prepare_items_logos"
                  /\ fut[i] = "fetching" /\ fut'[i] = "ready"
                  /\ res'[i].kind # "ok"
                  /\ Normalize(RemoteLogo(items[i].logo)) # None )
                => cache' = cache
           /\ \A r \in ghPending \ ghPending' :
                r \notin DOMAIN ghData' => cache' = cache
           /\ \A r \in cbPending \ cbPending' :
                r \notin DOMAIN cbData' => cache' = cache ]_vars

\* Second run: the first run went through the logo stage (u2 is cached) but
\* left nothing for u1, so the second run called the source for u1 again;
\* that request failed and the cache still holds nothing for u1.
C11_Witness ==
    /\ run = "second"
    /\ pc = "prepare_items_logos"
    /\ LogoKey("u2") \in cachedAtStart
    /\ LogoKey("u1") \notin cachedAtStart
    /\ Calls(LogoKey("u1")) = 1
    /\ fut[1] = "ready"
    /\ res[1] = ErrResult
    /\ LogoKey("u1") \notin DOMAIN cache

\* The enrichment field an item must carry for a reference, given whether the
\* request for that reference succeeded (only then is it in the cache).
Enriched(kind, ref) ==
    IF <<kind, ref>> \in DOMAIN cache THEN <<(<<kind, ref>>)>> ELSE <<>>

\* C12: a reference whose request failed is absent from the collected map,
\* the other references keep their records, no reference step aborts the
\* batch or the build, and after the merges an item has its record exactly
\* when the request for its reference succeeded.
C12_CollectorFailureIsolation ==
    /\ [](/\ pc = "collect" =>
               /\ \A r \in GithubRefs(items) \ ghPending :
                     /\ r \in DOMAIN ghData <=> <<"github", r>> \in DOMAIN cache
                     /\ r \in DOMAIN ghData => ghData[r] = <<"github", r>>
               /\ \A r \in CrunchbaseRefs(items) \ cbPending :
                     /\ r \in DOMAIN cbData <=> <<"crunchbase", r>> \in DOMAIN cache
                     /\ r \in DOMAIN cbData => cbData[r] = <<"crunchbase", r>>
          /\ pc \in Downstream =>
               \A i \in 1..Len(items) :
                  /\ items[i].github = Enriched("github", items[i].repo)
                  /\ items[i].crunchbase = Enriched("crunchbase", items[i].org))
    /\ [][ (pc = "collect" /\ (ghPending' # ghPending \/ cbPending' # cbPending))
              => (pc' = "collect" /\ result' = "running") ]_vars

\* The request for r1, shared by items 1 and 2, failed: neither has GitHub
\* data, item 3 has, and the build returned Ok.
C12_Witness ==
    /\ pc = "done"
    /\ result = "ok"
    /\ Calls(<<"github", "r1">>) = 1
    /\ <<"github", "r1">> \notin DOMAIN cache
    /\ items[1].github = <<>>
    /\ items[2].github = <<>>
    /\ items[3].github = <<(<<"github", "r2">>)>>

\* Statements whose failure is a setup or configuration failure.
SetupStatements ==
    {"check_web_assets", "setup_output_dir", "cache_new", "data_new",
     "settings_new", "add_featured_items_data", "get_settings_images"}

\* C13 (as stated): build returns an error only for a setup or configuration
\* failure, and never because a single external request got a non-success
\* HTTP status.
C13_OnlySetupErrors ==
    (cmd = "build" /\ result = "err") =>
        /\ cause[1] \in SetupStatements
        /\ cause[2] # "status_not_ok"

\* C13 (amended): build returns an error only when one of the statements of
\* build itself returns one; the logo stage and the per-reference steps of
\* the collectors never do; a non-success HTTP status is fatal only for a
\* settings image.
C13_ErrorsOnlyFromBuildStatements ==
    /\ []((cmd = "build" /\ result = "err") =>
            /\ cause[1] \in
                 {"check_web_assets", "setup_output_dir", "cache_new", "data_new",
                  "settings_new", "add_featured_items_data", "get_settings_images",
                  "prepare_guide", "collect", "add_crunchbase_data",
                  "add_github_data", "generate_datasets", "render_index",
                  "copy_web_assets", "generate_items_csv_file",
                  "generate_projects_files"}
            /\ cause[1] = "collect" => cause[2] \in {"crunchbase", "github"}
            /\ cause[2] = "status_not_ok" => cause[1] = "get_settings_images")
    /\ [][ /\ pc = "prepare_items_logos" => result' = "running"
           /\ (pc = "collect" /\ (ghPending' # ghPending \/ cbPending' # cbPending))
                => result' = "running" ]_vars

\* build returned the error of a settings image request answered with a
\* status other than 200.
C13_Witness ==
    /\ cmd = "build"
    /\ result = "err"
    /\ cause = <<"get_settings_images", "status_not_ok">>

\* C14: validate_data prints the valid message and returns Ok exactly when
\* the load succeeded; when the load fails it returns the error with the
\* "not valid" context and has printed nothing.
C14_ValidReportedIffLoaded ==
    cmd = "validate" =>
        /\ result = "ok" <=> stdout = <<VALID_MESSAGE>>
        /\ stdout \in {<<>>, <<VALID_MESSAGE>>}
        /\ result = "ok" =>
             /\ pc = "validate_returned"
             /\ items = [i \in ItemIdx |-> NewItem(InputItems[i])]
        /\ result = "err" =>
             /\ pc = "failed"
             /\ items = <<>>
             /\ stdout = <<>>
             /\ cause = <<"validate_data", NOT_VALID_CONTEXT>>
        /\ pc = "validate_report" => items # <<>>

\* The data file loaded: the message is on stdout and validate returned Ok.
C14_Witness ==
    /\ cmd = "validate"
    /\ pc = "validate_returned"
    /\ result = "ok"
    /\ stdout = <<VALID_MESSAGE>>
    /\ Len(items) = NumItems

\* How far the future of an item has got.
Rank(f) ==
    CASE f = "pending" -> 0 [] f = "lookup" -> 1 [] f = "fetching" -> 2
      [] f = "ready" -> 3 [] f = "done" -> 4

\* C15: within the logo stage the stream hands out the items one by one in
\* order; the preparation of an item starts once (it never goes back to
\* pending), completes once (from ready, and done stays done), and the stage
\* ends only with every item completed.
C15_EachItemOnce ==
    [][ pc = "prepare_items_logos" =>
          /\ \A i \in 1..Len(items) :
               /\ (fut[i] = "pending" /\ fut'[i] # "pending") =>
                     /\ fut'[i] = "lookup"
                     /\ next = i
                     /\ \A j \in 1..(i - 1) : fut[j] # "pending"
               /\ pc' = pc => Rank(fut'[i]) >= Rank(fut[i])
               /\ (fut[i] # "done" /\ fut'[i] = "done") => fut[i] = "ready"
          /\ LogoStageReturns =>
               /\ Len(items) = NumItems
               /\ \A i \in 1..Len(items) : fut[i] = "done" ]_vars

\* More items than the cap (one future at a time): all three were started
\* and completed, and the stream is exhausted.
C15_Witness ==
    /\ pc = "prepare_items_logos"
    /\ numCpus = 1
    /\ Len(items) > numCpus
    /\ next = Len(items) + 1
    /\ \A i \in 1..Len(items) : fut[i] = "done"

\* C16: when prepare_items_logos returns, the logo of every item is either
\* the empty marker or logos/<digest>.svg with the digest of the item's own
\* normalized logo; no item keeps the reference it came with.
C16_LogoEmptyOrOwnPath ==
    /\ [][ LogoStageReturns =>
             \A i \in 1..Len(items) :
                /\ items'[i].logo # items[i].logo
                /\ \/ items'[i].logo = ""
                   \/ /\ Normalize(RemoteLogo(items[i].logo)) # None
                      /\ items'[i].logo =
                           "logos/"
                           \o Digest(Normalize(RemoteLogo(items[i].logo))[1])
                           \o ".svg" ]_vars
    /\ []((pc = "collect_start" \/ pc = "collect" \/ pc \in Downstream) =>
            \A i \in 1..Len(items) :
               items[i].logo \in {"", "logos/a1f0.svg", "logos/b2e7.svg"})

\* Item 3 was fetched and prepared but its file could not be created: it has
\* the empty marker; items 1 and 2 have the path of their (shared) digest.
C16_Witness ==
    /\ pc = "collect_start"
    /\ LogoKey("u3") \in DOMAIN cache
    /\ items[3].logo = ""
    /\ items[1].logo = "logos/a1f0.svg"
    /\ items[2].logo = "logos/a1f0.svg"

\* C17: from the start of dataset generation to the end of build, no step
\* changes the item collection.
C17_ItemsFrozen ==
    [][ (pc \in Downstream) => (items' = items) ]_vars

\* build went through the five steps that follow the merges and returned Ok
\* with enriched items.
C17_Witness ==
    /\ pc = "done"
    /\ result = "ok"
    /\ items[1].logo = "logos/a1f0.svg"
    /\ items[1].github # <<>>
    /\ items[3].crunchbase # <<>>

\* C18: whichever futures have completed, and in whatever order, the map
\* holds for each completed item, under that item's id, the entry its own
\* outcome determines; the update gives every item the entry under its id.
C18_OrderIndependent ==
    /\ [](pc = "prepare_items_logos" =>
            /\ DOMAIN logos = {items[i].id : i \in {j \in ItemIdx : fut[j] = "done"}}
            /\ \A i \in 1..Len(items) :
                 fut[i] = "done" =>
                    logos[items[i].id] =
                       IF res[i].kind = "ok" /\ io[i] # "create_failed"
                       THEN <<"logos/" \o res[i].digest \o ".svg">>
                       ELSE <<>>)
    /\ [][ LogoStageReturns =>
             \A i \in 1..Len(items) :
                items'[i].logo =
                   IF logos[items[i].id] = <<>> THEN "" ELSE logos[items[i].id][1] ]_vars

\* Items 2 and 3 completed before item 1: item 2 failed, item 3 has its path.
C18_Witness ==
    /\ pc = "prepare_items_logos"
    /\ fut[1] = "ready"
    /\ fut[2] = "done"
    /\ fut[3] = "done"
    /\ logos[12] = <<>>
    /\ logos[13] = <<"logos/b2e7.svg">>

\* C19: after the logo stage, every non-empty logo path names a file of the
\* logos directory whose content is exactly the normalized bytes of the
\* item's logo.
C19_PathsNameExactFiles ==
    pc = "collect_start" =>
        \A i \in 1..Len(items) :
           items[i].logo # "" =>
              \E d \in {"a1f0", "b2e7"} :
                 /\ items[i].logo = "logos/" \o d \o ".svg"
                 /\ (d \o ".svg") \in DOMAIN files
                 /\ files[d \o ".svg"] = Normalize(RemoteLogo(InputItems[i].logo))[1]

\* C20: when a collector as a whole has returned an error, build has returned
\* that error: neither merge was applied (the items carry no Crunchbase and
\* no GitHub data, only the logo rewrite has happened) and no later step ran.
C20_CollectErrorStopsBuild ==
    /\ (cbState = "failed" \/ ghState = "failed") =>
          /\ pc = "failed"
          /\ result = "err"
          /\ cause \in {<<"collect", "crunchbase">>, <<"collect", "github">>}
          /\ cause[2] = "crunchbase" <=> cbState = "failed"
          /\ mutations = <<"logo">>
          /\ \A i \in 1..Len(items) :
                items[i].crunchbase = <<>> /\ items[i].github = <<>>
    /\ cause[1] = "collect" => (cbState = "failed" \/ ghState = "failed")

\* The GitHub collection failed as a whole after Crunchbase had collected
\* records: build returned the error and no item carries Crunchbase data.
C20_Witness ==
    /\ pc = "failed"
    /\ ghState = "failed"
    /\ cbState = "done"
    /\ cbData # <<>>
    /\ cause = <<"collect", "github">>
    /\ \A i \in 1..Len(items) : items[i].crunchbase = <<>>

====
